---------------------------- MODULE Spec2Model ----------------------------
(***************************************************************************)
(* PhysNetCalculator (src/calculator.py): an ASE calculator that caches    *)
(* the last evaluated Atoms object and its results, builds the all-pairs   *)
(* index, dispatches on DER_type and derives the evidential uncertainty.   *)
(*                                                                         *)
(* Spec        the evaluator and one caller: construction, the five        *)
(*             accessors, and the caller changing its Atoms object.        *)
(* SpecIndices get_indices applied to every atom count 1..MaxN.            *)
(* SpecFail    recomputations in which the network raises.                 *)
(* SpecDirect  the caller also calls calculate(atoms) itself.              *)
(* SpecRace    two threads calling the accessors or calculate on one       *)
(*             evaluator built without Hessian, each with its own Atoms    *)
(*             object (SpecRaceHessian: built with it). The interpreter    *)
(*             may switch threads between any two bytecodes, so a step     *)
(*             holds at most one read or one store, by the code, of an     *)
(*             attribute that calculate assigns; the attributes set by     *)
(*             __init__ alone and the locals of a thread are read within   *)
(*             the step.                                                   *)
(***************************************************************************)
EXTENDS Integers, Sequences, FiniteSets, TLC

VARIABLES
    constructed,   \* PhysNetCalculator.__init__ has returned
    self,          \* the attributes of the PhysNetCalculator instance
    atoms,         \* the caller's ase.Atoms object (its current value)
    snap,          \* the object made by atoms.copy() in calculate
    ret,           \* value returned by the accessor call just made
    called,        \* that call: [acc, recomputed]
    ncalc,         \* number of calculate() calls so far (warm-up included)
    ndiff,         \* accessor calls whose configuration differed from the
                   \* one of the preceding accessor call (first call counted)
    prev,          \* configuration of the preceding accessor call
    gi,            \* SpecIndices: the locals of a get_indices call
    nfail,         \* SpecFail: number of calculate() calls that raised
    th             \* SpecRace: per thread, its Atoms object and where it
                   \* is in get_forces

vars == <<constructed, self, atoms, snap, ret, called, ncalc, ndiff, prev, gi,
          nfail, th>>

\* Python None where an object, array or number is expected
None == [none |-> TRUE]
\* Python None as the value of DER_type, and the null object reference
NoneTag == "<None>"
\* no accessor call is pending a return value
NoRet == [noret |-> TRUE]

(* ------------------------------ bounds --------------------------------- *)

\* largest atom count of a configuration in Spec
MaxAtoms == 2

\* largest number of calculate() calls on one evaluator in Spec
MaxCalc == 3

\* largest atom count given to get_indices in SpecIndices
MaxN == 14

\* largest number of calls a thread makes in SpecRace
MaxCalls == 3

(* --------------------------- tensor helpers ---------------------------- *)

\* torch.arange(end=N): <<0, ..., N-1>>
arange(N) == [k \in 1..N |-> k - 1]

\* Tensor.repeat(k) of a 1-d tensor: k copies laid end to end (k = 0: empty)
repeat(s, k) == [p \in 1..(Len(s) * k) |-> s[((p - 1) % Len(s)) + 1]]

\* torch.roll(s, shift, dims=0): element p moves to p + shift, cyclically
\* (roll_right: the same with the elements moved the other way)
roll_right(s, shift) == [p \in 1..Len(s) |-> s[((p - 1 + shift) % Len(s)) + 1]]
roll(s, shift) == [p \in 1..Len(s) |-> s[((p - 1 - shift) % Len(s)) + 1]]

\* torch.concat([a, b], dim=0)
concat(a, b) == a \o b

\* number of entries of s below v, and equal to v
CountBelow(s, v) == Cardinality({p \in DOMAIN s : s[p] < v})
CountUpTo(s, v) == Cardinality({p \in DOMAIN s : s[p] <= v})

\* torch.sort(s)[0]: the values of s in ascending order
sort(s) ==
    [p \in 1..Len(s) |->
        CHOOSE v \in {s[q] : q \in DOMAIN s} :
            CountBelow(s, v) < p /\ p <= CountUpTo(s, v)]

(* ----------------------------- get_indices ----------------------------- *)

\* get_indices, lines 153-159: N, idx, idx_i and idx_j before the loop
gi_begin(N) ==
    LET idx == arange(N)
    IN  [pc |-> "loop", N |-> N, Na |-> 2, idx |-> idx,
         idx_i |-> repeat(idx, N - 1),
         idx_j |-> roll(idx, -1)]

\* get_indices, lines 161-162: the loop has another Na of torch.arange(2, N)
gi_more(g) == g.N >= 2 /\ g.Na < g.N

\* get_indices, lines 163-166: one pass of the loop
gi_step(g) ==
    [g EXCEPT !.idx_j = concat(g.idx_j, roll(g.idx, -g.Na)),
              !.Na    = g.Na + 1]

\* get_indices, lines 167-168: sort idx_i and return
gi_return(g) == [g EXCEPT !.idx_i = sort(g.idx_i), !.pc = "done"]

RECURSIVE gi_loop(_)
gi_loop(g) == IF gi_more(g) THEN gi_loop(gi_step(g)) ELSE g

\* get_indices(atoms) for len(atoms) = N: the pair <<idx_i, idx_j>>
get_indices(N) ==
    LET g == gi_return(gi_loop(gi_begin(N)))
    IN  <<g.idx_i, g.idx_j>>

(* ------------------------ numbers (rationals) -------------------------- *)

\* A float is the fraction n/d in lowest terms with d > 0; division by zero
\* gives numpy's results: d = 0 with n = 1 (inf), n = -1 (-inf), n = 0 (nan).
RECURSIVE GCD(_, _)
GCD(a, b) == IF b = 0 THEN a ELSE GCD(b, a % b)

Abs(x) == IF x < 0 THEN -x ELSE x
Sign(x) == IF x < 0 THEN -1 ELSE IF x = 0 THEN 0 ELSE 1

Frac(n, d) ==
    IF d = 0 THEN [n |-> Sign(n), d |-> 0]
    ELSE LET g == GCD(Abs(n), Abs(d))
         IN  [n |-> Sign(d) * (n \div g), d |-> Abs(d) \div g]

Num(k) == [n |-> k, d |-> 1]
IsFinite(x) == x.d # 0
IsInf(x) == x.d = 0 /\ x.n # 0
\* inf + inf = inf, inf + -inf = nan; everything else as fractions
RAdd(x, y) ==
    IF IsInf(x) /\ IsInf(y)
    THEN [n |-> IF x.n = y.n THEN x.n ELSE 0, d |-> 0]
    ELSE Frac(x.n * y.d + y.n * x.d, x.d * y.d)
RSub(x, y) == RAdd(x, [n |-> -y.n, d |-> y.d])
RMul(x, y) == Frac(x.n * y.n, x.d * y.d)
\* inf / y for a finite y takes the sign of y
RDiv(x, y) ==
    IF IsInf(x) /\ IsFinite(y)
    THEN [n |-> IF y.n < 0 THEN -x.n ELSE x.n, d |-> 0]
    ELSE Frac(x.n * y.d, x.d * y.n)

(* ---------------------------- configurations --------------------------- *)

Species == {1, 8}
Shifts == {0, 1}
Cells == {0, 10}
NoPbc == <<FALSE, FALSE, FALSE>>
Pbcs == {NoPbc, <<FALSE, TRUE, FALSE>>}

\* An ase.Atoms value: n atoms on a line, hydrogens but for the last one,
\* the last one shifted by sh; cell is the cell's diagonal length.
MkAtoms(n, sp, sh, cell, pbc) ==
    [numbers   |-> [k \in 1..n |-> IF k = n THEN sp ELSE 1],
     positions |-> [k \in 1..n |-> IF k = n THEN k + sh ELSE k],
     cell      |-> cell,
     pbc       |-> pbc]

\* the configurations of the model: at most one of species, shift, cell and
\* periodic flags differs from the plain chain of n hydrogens
PlainChain == <<1, 0, 0, NoPbc>>
Configs ==
    { MkAtoms(n, q[1], q[2], q[3], q[4]) :
        n \in 1..MaxAtoms,
        q \in { q \in Species \X Shifts \X Cells \X Pbcs :
                  Cardinality({i \in 1..4 : q[i] # PlainChain[i]}) <= 1 } }

\* len(atoms)
len(a) == Len(a.numbers)

\* ase.Atoms.__eq__: same length and elementwise equal positions, numbers,
\* cell and pbc
AtomsEq(a, b) ==
    /\ len(a) = len(b)
    /\ \A k \in 1..len(a) : a.positions[k] = b.positions[k]
    /\ \A k \in 1..len(a) : a.numbers[k] = b.numbers[k]
    /\ a.cell = b.cell
    /\ \A k \in 1..3 : a.pbc[k] = b.pbc[k]

\* any(atoms.get_pbc())
\* (any_first: only the first axis is looked at)
any_first(pbc) == pbc[1]
any(pbc) == \E k \in DOMAIN pbc : pbc[k]

(* ------------------------------ the network --------------------------- *)

\* args.cutoff, the default of --cutoff
Cutoff == 10
\* the lr_cut values a caller constructs the calculator with
LrCuts == {None, Num(12)}
\* the DER_type values a config file gives (NoneTag: the option is absent)
DERTypes == {"simple", "Lipz", "MD", NoneTag}

\* (lambdas, alpha, beta) as the evidential entry points return them
EvidentialOut ==
    { [lambdas |-> Num(2), alpha |-> Num(3), beta |-> Num(4)],
      [lambdas |-> Num(1), alpha |-> Num(2), beta |-> Num(3)],
      [lambdas |-> Num(2), alpha |-> Num(1), beta |-> Num(4)] }

\* pred[2..5] = (L00, L10, L11, nu) as the MD entry points return them
MDOut ==
    { [L00 |-> Num(1), L10 |-> Frac(1, 2), L11 |-> Num(1), nu |-> Num(5)],
      [L00 |-> Num(2), L10 |-> Num(1), L11 |-> Num(1), nu |-> Num(4)] }

Evidential == {"energy_forces_and_hessian_evidential",
               "energy_forces_and_others_evidential"}
MDEvidential == {"energy_hessian_and_forces_md_evidencial",
                 "energy_and_forces_md_evidencial"}

\* ase.neighborlist.neighbor_list('ijS', atoms, cutoff): the pair list and
\* shifts found for atoms under cutoff
neighbor_list(a, cutoff) == [search |-> "ijS", of |-> a, cutoff |-> cutoff]

\* a quantity the network computed in the call c (its arguments)
Computed(prop, c) == [prop |-> prop, call |-> c, lib |-> "torch"]

\* x has the methods of a torch tensor (detach, clone)
is_tensor(x) == x # None /\ x.lib = "torch"

\* x.detach().cpu().numpy() of a tensor x: the numpy array of its values
to_numpy(x) == [prop |-> x.prop, call |-> x.call, lib |-> "numpy"]

\* the exception of x.detach() when x is no tensor; s is self as the
\* statement that raised has left it
AttributeError(s) == [raises |-> "AttributeError", self |-> s]
IsRaise(x) == "raises" \in DOMAIN x

(* ----------------------------- the evaluator --------------------------- *)

\* the object a reference points to: the caller's Atoms object, the copy
\* made by calculate, or the Atoms object of a thread
Deref(r) ==
    CASE r = "atoms" -> atoms
      [] r = "snap" -> snap
      [] OTHER -> th[r].arg

\* atoms.copy(): a reference to a new object (the slot snap)
\* (copy_alias: no copy is made, the argument itself is kept)
copy_alias(r) == r
copy(r) == "snap"

\* bool(x) of a Python string
truthy(str) == str # ""

\* calculation_required, line 173: self.last_atoms is None
nothing_cached(s) == s._last_atoms = NoneTag

\* calculation_required, line 176: atoms != self.last_atoms
\* (atoms_ne_no: no configuration differs from the cached one)
atoms_ne_no(s, a) == FALSE
atoms_ne(s, a) == ~AtomsEq(a, Deref(s._last_atoms))

\* calculation_required(atoms)
\* (calculation_required_never: true only while nothing is cached;
\*  calculation_required_always: true whatever is cached)
calculation_required_never(s, a) == s._last_atoms = NoneTag
calculation_required_always(s, a) == TRUE
calculation_required(s, a) ==
    IF s._last_atoms = NoneTag
    THEN TRUE
    ELSE ~AtomsEq(a, Deref(s._last_atoms))

\* a key the results dictionary does not hold
Missing == [missing |-> TRUE]
EmptyResults == [energy |-> Missing, forces |-> Missing, hessian |-> Missing]

\* the attributes before __init__ has set them
Unset ==
    [_sr_cutoff |-> None, _lr_cutoff |-> None, _use_neighborlist |-> FALSE,
     hessian_active |-> FALSE, DER_type |-> NoneTag,
     _Z |-> <<>>, _R |-> <<>>, _idx_i |-> <<>>, _idx_j |-> <<>>,
     _model |-> None, _last_atoms |-> NoneTag,
     _last_energy |-> None, _last_charges |-> None, _last_forces |-> None,
     _last_hessian |-> None, _sigma2 |-> None, _var |-> None,
     results |-> EmptyResults]

\* calculate, lines 181-196: the pair index and offsets given to the network
PairArgs(s, a) ==
    IF s._use_neighborlist \/ any(a.pbc)
    THEN [idx        |-> neighbor_list(a, s._lr_cutoff),
          offsets    |-> [dot |-> "S", cell |-> a.cell],
          sr_idx     |-> neighbor_list(a, s._sr_cutoff),
          sr_offsets |-> [dot |-> "sr_S", cell |-> a.cell]]
    ELSE [idx        |-> [idx_i |-> s._idx_i, idx_j |-> s._idx_j],
          offsets    |-> None,
          sr_idx     |-> None,
          sr_offsets |-> None]

\* the arguments of a network call: entry(self.Z, self.R, idx_i, idx_j, ...)
CallArgs(s, entry, pairs) ==
    [entry |-> entry, Z |-> s._Z, R |-> s._R, pairs |-> pairs]

\* calculate, line 221: sigma2 = beta / (alpha - 1)
\* (evidential_sigma2_prec: beta / alpha - 1)
evidential_sigma2_prec(alpha, beta) == RSub(RDiv(beta, alpha), Num(1))
evidential_sigma2(alpha, beta) == RDiv(beta, RSub(alpha, Num(1)))

\* calculate, line 222: var = (1 / lambdas) * sigma2
evidential_var(lambdas, sigma2) == RMul(RDiv(Num(1), lambdas), sigma2)

\* calculate, lines 206-215: the evidential entry point for hessian_active
\* (evidential_entry_plain: the variant without Hessian whatever the flag)
evidential_entry_plain(hessian_active) == "energy_forces_and_others_evidential"
evidential_entry(hessian_active) ==
    IF hessian_active
    THEN "energy_forces_and_hessian_evidential"
    ELSE "energy_forces_and_others_evidential"

\* calculate, line 203: self._R = torch.tensor(atoms.get_positions(), ...)
set_R(s, a) == [s EXCEPT !._R = a.positions]

\* calculate, lines 208/215: the arguments of the call are evaluated, self.Z
\* and self.R read
simple_args(s, pairs) ==
    CallArgs(s, evidential_entry(s.hessian_active), pairs)

\* the entry point called with the arguments c for atoms a returns ev
served(c, a, ev) == [call |-> c, for |-> a, out |-> ev]

\* calculate, lines 207-219, the right-hand side: the entry point is called
\* with self.Z, self.R and the pair index pairs; the network returns ev for
\* atoms a
simple_call(s, a, pairs, ev) ==
    [call |-> CallArgs(s, evidential_entry(s.hessian_active), pairs),
     for  |-> a,
     out  |-> ev]

\* the network keeps the last call it has served
network_called(s, m) == [s EXCEPT !._model = m]

\* calculate, lines 207/214: the attributes among the targets of the tuple
\* assignment, left to right, and the element of the tuple each one gets
AssignTargets(hessian_active) ==
    IF hessian_active
    THEN <<"_last_energy", "_last_charges", "_last_forces", "_last_hessian">>
    ELSE <<"_last_energy", "_last_charges", "_last_forces">>
AssignProp ==
    [_last_energy |-> "energy", _last_charges |-> "charges",
     _last_forces |-> "forces", _last_hessian |-> "hessian"]

\* calculate, lines 207/214: the store into one target
assign_target(s, attr, m) == [s EXCEPT ![attr] = Computed(AssignProp[attr], m.call)]

\* calculate, lines 207/214, the targets of the tuple assignment
simple_assign(s, m) ==
    [s EXCEPT !._last_energy  = Computed("energy", m.call),
              !._last_charges = Computed("charges", m.call),
              !._last_forces  = Computed("forces", m.call),
              !._last_hessian = IF s.hessian_active
                                THEN Computed("hessian", m.call)
                                ELSE s._last_hessian]

\* calculate, line 221: self._sigma2 from the locals alpha and beta
simple_sigma2(s, ev) ==
    [s EXCEPT !._sigma2 = evidential_sigma2(ev.alpha, ev.beta)]

\* calculate, line 222, the store: self._var from the local lambdas and the
\* value sigma2 that the getter self.sigma2 has returned
store_var(s, ev, sigma2) == [s EXCEPT !._var = evidential_var(ev.lambdas, sigma2)]

\* calculate, line 222: self._var from the local lambdas and self.sigma2
simple_var(s, ev) ==
    [s EXCEPT !._var = evidential_var(ev.lambdas, s._sigma2)]

\* calculate, lines 225, 226, 229: self.attr = self.attr.detach()...numpy()
convert(s, attr) ==
    IF is_tensor(s[attr])
    THEN [s EXCEPT ![attr] = to_numpy(s[attr])]
    ELSE AttributeError(s)

\* calculate, line 231
no_hessian(s) == [s EXCEPT !._last_hessian = None]

\* calculate, lines 225-231: energy, forces and Hessian are converted in
\* place; the first that is no tensor ends calculate with its exception
simple_convert(s) ==
    LET s1 == convert(s, "_last_energy")
        s2 == IF IsRaise(s1) THEN s1 ELSE convert(s1, "_last_forces")
    IN  IF IsRaise(s2) THEN s2
        ELSE IF s.hessian_active THEN convert(s2, "_last_hessian")
        ELSE no_hessian(s2)

\* calculate, lines 206-231: the branch of DER_type == 'simple' or 'Lipz'
simple_branch(s, a, ev) ==
    LET m == simple_call(s, a, PairArgs(s, a), ev)
    IN  simple_convert(
            simple_var(simple_sigma2(simple_assign(network_called(s, m), m),
                                     ev), ev))

\* calculate, lines 234-268: the branch of DER_type == 'MD'
md_branch(s, a, md) ==
    LET entry == IF s.hessian_active
                 THEN "energy_hessian_and_forces_md_evidencial"
                 ELSE "energy_and_forces_md_evidencial"
        pairs == PairArgs(s, a)
        c      == CallArgs(s, entry,
                           [idx |-> pairs.idx, offsets |-> None,
                            sr_idx |-> None, sr_offsets |-> None])
        \* L = [[L00, 0], [L10, L11]], sigma = L L^T
        sigma  == [r00 |-> RMul(md.L00, md.L00), r01 |-> RMul(md.L00, md.L10),
                   r10 |-> RMul(md.L10, md.L00),
                   r11 |-> RAdd(RMul(md.L10, md.L10), RMul(md.L11, md.L11))]
        scale  == RDiv(md.nu, RSub(md.nu, Num(3)))
        sigma2 == [k \in DOMAIN sigma |-> RMul(scale, sigma[k])]
        var    == [k \in DOMAIN sigma |-> RMul(RDiv(Num(1), md.nu), sigma2[k])]
    IN  [s EXCEPT !._model        = [call |-> c, for |-> a, out |-> md],
                  !._last_energy  = to_numpy(Computed("energy", c)),
                  !._last_forces  = to_numpy(Computed("forces", c)),
                  !._sigma2       = sigma.r00,
                  !._var          = var.r00,
                  !._last_hessian = IF s.hessian_active
                                    THEN to_numpy(Computed("hessian", c))
                                    ELSE None]

\* calculate, lines 205 and 233: which branch runs
branch(s) ==
    IF (s.DER_type = "simple") \/ truthy("Lipz") THEN "simple"
    ELSE IF s.DER_type = "MD" THEN "MD"
    ELSE "neither"

\* what the network can return from the entry point of a branch
NetOut(b) ==
    CASE b = "simple" -> EvidentialOut
      [] b = "MD" -> MDOut
      [] OTHER -> {None}

\* calculate, lines 276, 277, 278, the store: self.results[key] = x for the
\* value x that the getter self.last_<key> has returned
set_result(s, key, x) == [s EXCEPT !.results[key] = x]

\* calculate, lines 276, 277, 278: self.results[key] = self.last_<key>
store_result(s, key, attr) == [s EXCEPT !.results[key] = s[attr]]

\* calculate, lines 276-278: the results dictionary
store_results(s) ==
    store_result(store_result(store_result(s, "energy", "_last_energy"),
                              "forces", "_last_forces"),
                 "hessian", "_last_hessian")

\* calculate, line 279: self._last_atoms = atoms.copy()
set_last_atoms(s, r) == [s EXCEPT !._last_atoms = copy(r)]

\* calculate(atoms) for the object r refers to; out is what the network
\* returns from the entry point that gets called
calculate(s, r, out) ==
    LET a  == Deref(r)
        s1 == set_R(s, a)
        s2 == CASE branch(s1) = "simple" -> simple_branch(s1, a, out)
                [] branch(s1) = "MD" -> md_branch(s1, a, out)
                [] OTHER -> s1
    IN  IF IsRaise(s2) THEN s2 ELSE set_last_atoms(store_results(s2), r)

\* __init__, line 147: forget the warm-up's configuration
\* (invalidate_skip: the warm-up's configuration stays cached)
invalidate_skip(s) == s
invalidate(s) == [s EXCEPT !._last_atoms = NoneTag]

(* ------------------------------- Spec ---------------------------------- *)

NoCall == [acc |-> "none", recomputed |-> FALSE]

\* the threads of SpecRace; none has called anything
Threads == {"t1", "t2"}
IdleThread ==
    [pc |-> "idle", fn |-> "none", arg |-> None, pairs |-> None, m |-> None,
     k |-> 0, tmp |-> None, rd |-> <<>>, got |-> <<>>, ret |-> NoRet,
     calls |-> 0]
NoThreads == [t \in Threads |-> IdleThread]

\* no get_indices call is in progress
GI_Idle == [pc |-> "idle", N |-> 0, Na |-> 0, idx |-> <<>>,
            idx_i |-> <<>>, idx_j |-> <<>>]

Init ==
    /\ constructed = FALSE
    /\ self = Unset
    /\ atoms \in Configs
    /\ snap = None
    /\ ret = NoRet
    /\ called = NoCall
    /\ ncalc = 0
    /\ ndiff = 0
    /\ prev = None
    /\ gi = GI_Idle
    /\ nfail = 0
    /\ th = NoThreads

\* __init__, lines 18-140: the attributes before the warm-up
attributes(lr_cut, hessian, der) ==
    LET ij == get_indices(len(atoms))
    IN  [Unset EXCEPT
           !._sr_cutoff        = Num(Cutoff),
           !._lr_cutoff        = lr_cut,
           !._use_neighborlist = (lr_cut # None),
           !.hessian_active    = hessian,
           !.DER_type          = der,
           !._Z                = atoms.numbers,
           !._R                = atoms.positions,
           !._idx_i            = ij[1],
           !._idx_j            = ij[2]]

\* __init__, lines 144-148: the warm-up, in which the network returns out
warm_up(s0, out) ==
    [invalidate(calculate(s0, "atoms", out)) EXCEPT !.results = EmptyResults]

\* PhysNetCalculator(atoms, checkpoint, config, lr_cut=..., hessian=...)
\* with a config file that sets DER_type to der
Construct ==
    /\ ~constructed
    /\ \E lr_cut \in LrCuts, hessian \in BOOLEAN, der \in DERTypes :
         LET s0 == attributes(lr_cut, hessian, der)
         IN  \E out \in NetOut(branch(s0)) : self' = warm_up(s0, out)
    /\ snap' = atoms
    /\ ncalc' = ncalc + 1
    /\ constructed' = TRUE
    /\ UNCHANGED <<atoms, ret, called, ndiff, prev, gi, nfail, th>>

\* if self.calculation_required(atoms): self.calculate(atoms)
Gate ==
    /\ constructed
    /\ IF calculation_required(self, atoms)
       THEN /\ ncalc < MaxCalc
            /\ \E out \in NetOut(branch(self)) :
                 self' = calculate(self, "atoms", out)
            /\ snap' = atoms
            /\ ncalc' = ncalc + 1
       ELSE UNCHANGED <<self, snap, ncalc>>

\* bookkeeping of an accessor call
Called(acc) ==
    /\ called' = [acc |-> acc, recomputed |-> calculation_required(self, atoms)]
    /\ ndiff' = IF prev = None \/ ~AtomsEq(atoms, prev) THEN ndiff + 1 ELSE ndiff
    /\ prev' = atoms
    /\ UNCHANGED <<constructed, atoms, gi, nfail, th>>

get_potential_energy ==
    /\ Gate
    /\ ret' = [value |-> self'.results.energy]
    /\ Called("get_potential_energy")

get_potential_energy_and_uncertainty ==
    /\ Gate
    /\ ret' = [value |-> <<self'._last_energy, self'._var, self'._sigma2>>]
    /\ Called("get_potential_energy_and_uncertainty")

get_potential_energy_uncertainty_and_forces ==
    /\ Gate
    /\ ret' = [value |-> <<self'._last_energy, self'._var, self'._sigma2,
                           self'._last_forces>>]
    /\ Called("get_potential_energy_uncertainty_and_forces")

get_forces ==
    /\ Gate
    /\ ret' = [value |-> self'._last_forces]
    /\ Called("get_forces")

get_hessian ==
    /\ Gate
    /\ ret' = [value |-> self'._last_hessian]
    /\ Called("get_hessian")

\* the caller changes its Atoms object in place to the value b
Mutate(b) ==
    /\ constructed
    /\ b \in Configs
    /\ b # atoms
    /\ atoms' = b
    /\ ret' = NoRet
    /\ called' = NoCall
    /\ UNCHANGED <<constructed, self, snap, ncalc, ndiff, prev, gi, nfail, th>>

set_positions ==
    \E b \in Configs : b = [atoms EXCEPT !.positions = b.positions] /\ Mutate(b)

set_atomic_numbers ==
    \E b \in Configs : b = [atoms EXCEPT !.numbers = b.numbers] /\ Mutate(b)

set_cell ==
    \E b \in Configs : b = [atoms EXCEPT !.cell = b.cell] /\ Mutate(b)

set_pbc ==
    \E b \in Configs : b = [atoms EXCEPT !.pbc = b.pbc] /\ Mutate(b)

\* atoms.append(atom)
append ==
    \E b \in Configs :
        /\ len(b) = len(atoms) + 1
        /\ SubSeq(b.numbers, 1, len(atoms)) = atoms.numbers
        /\ SubSeq(b.positions, 1, len(atoms)) = atoms.positions
        /\ b.cell = atoms.cell /\ b.pbc = atoms.pbc
        /\ Mutate(b)

\* atoms.pop()
pop ==
    \E b \in Configs :
        /\ len(b) = len(atoms) - 1
        /\ SubSeq(atoms.numbers, 1, len(b)) = b.numbers
        /\ SubSeq(atoms.positions, 1, len(b)) = b.positions
        /\ b.cell = atoms.cell /\ b.pbc = atoms.pbc
        /\ Mutate(b)

Next ==
    \/ Construct
    \/ get_potential_energy
    \/ get_potential_energy_and_uncertainty
    \/ get_potential_energy_uncertainty_and_forces
    \/ get_forces
    \/ get_hessian
    \/ set_positions
    \/ set_atomic_numbers
    \/ set_cell
    \/ set_pbc
    \/ append
    \/ pop

Spec == Init /\ [][Next]_vars

(* ------------------------- SpecIndices ---------------------------------- *)

Rest == <<constructed, self, atoms, snap, ret, called, ncalc, ndiff, prev,
         nfail, th>>

\* a caller is about to call get_indices(atoms) with len(atoms) in 1..MaxN
InitIndices ==
    /\ constructed = FALSE
    /\ self = Unset
    /\ atoms = MkAtoms(1, 1, 0, 0, NoPbc)
    /\ snap = None
    /\ ret = NoRet
    /\ called = NoCall
    /\ ncalc = 0
    /\ ndiff = 0
    /\ prev = None
    /\ gi \in {[GI_Idle EXCEPT !.pc = "call", !.N = n] : n \in 1..MaxN}
    /\ nfail = 0
    /\ th = NoThreads

GI_Begin ==
    /\ gi.pc = "call"
    /\ gi' = gi_begin(gi.N)
    /\ UNCHANGED Rest

GI_Loop ==
    /\ gi.pc = "loop"
    /\ gi_more(gi)
    /\ gi' = gi_step(gi)
    /\ UNCHANGED Rest

GI_Return ==
    /\ gi.pc = "loop"
    /\ ~gi_more(gi)
    /\ gi' = gi_return(gi)
    /\ UNCHANGED Rest

NextIndices ==
    \/ GI_Begin
    \/ GI_Loop
    \/ GI_Return

SpecIndices == InitIndices /\ [][NextIndices]_vars

(* ------------------------------- SpecFail ------------------------------ *)

\* recomputations that may raise in one run
MaxFail == 1

Accessors ==
    {"get_potential_energy", "get_potential_energy_and_uncertainty",
     "get_potential_energy_uncertainty_and_forces", "get_forces",
     "get_hessian"}

\* calculate(atoms) when the network entry point raises: the pair index is
\* chosen and self._R assigned (lines 181-203); the tuple assignment of
\* lines 207/214 and everything after it do not run
\* (calculate_raises_marked: the configuration is recorded as cached before
\*  the network is called)
calculate_raises_marked(s, r) ==
    [s EXCEPT !._R = Deref(r).positions, !._last_atoms = r]
calculate_raises(s, r) == set_R(s, Deref(r))

\* an accessor whose recomputation raises: the exception leaves calculate
\* and the accessor, nothing is returned
accessor_raises ==
    /\ constructed
    /\ calculation_required(self, atoms)
    /\ nfail < MaxFail
    /\ self' = calculate_raises(self, "atoms")
    /\ ret' = NoRet
    /\ \E acc \in Accessors : called' = [acc |-> acc, recomputed |-> TRUE]
    /\ nfail' = nfail + 1
    /\ ndiff' = IF prev = None \/ ~AtomsEq(atoms, prev) THEN ndiff + 1 ELSE ndiff
    /\ prev' = atoms
    /\ UNCHANGED <<constructed, atoms, snap, ncalc, gi, th>>

\* the caller moves its atoms between two calls; the other ways of
\* changing the Atoms object are those of Spec
NextFail ==
    \/ Construct
    \/ get_potential_energy
    \/ get_potential_energy_and_uncertainty
    \/ get_potential_energy_uncertainty_and_forces
    \/ get_forces
    \/ get_hessian
    \/ accessor_raises
    \/ set_positions

SpecFail == Init /\ [][NextFail]_vars

(* ------------------------------- SpecDirect ---------------------------- *)

\* calc.calculate(atoms) called by the caller itself, as ase's Calculator
\* interface does: it recomputes whatever is cached and returns nothing
direct_calculate ==
    /\ constructed
    /\ ncalc < MaxCalc
    /\ \E out \in NetOut(branch(self)) : self' = calculate(self, "atoms", out)
    /\ snap' = atoms
    /\ ncalc' = ncalc + 1
    /\ ret' = NoRet
    /\ called' = NoCall
    /\ UNCHANGED <<constructed, atoms, ndiff, prev, gi, nfail, th>>

\* the caller moves its atoms between two calls; the other ways of
\* changing the Atoms object are those of Spec
NextDirect ==
    \/ Construct
    \/ get_potential_energy
    \/ get_potential_energy_and_uncertainty
    \/ get_potential_energy_uncertainty_and_forces
    \/ get_forces
    \/ get_hessian
    \/ direct_calculate
    \/ set_positions

SpecDirect == Init /\ [][NextDirect]_vars

(* ------------------------------- SpecRace ------------------------------ *)

\* (lambdas, alpha, beta) returned by the network in the calls made before
\* the threads start
FirstOut == [lambdas |-> Num(2), alpha |-> Num(3), beta |-> Num(4)]

\* the evaluator has been built with DER_type 'simple', no long-range
\* cutoff and hessian as given from the first thread's configuration, the
\* chain of MaxAtoms hydrogens without cell or periodic flags; the second
\* thread holds the same atoms at other positions. Nothing is cached, or
\* the evaluator has since served one call for the second thread's
\* configuration, which is cached
InitRaceFor(hessian) ==
    /\ constructed = TRUE
    /\ atoms = MkAtoms(MaxAtoms, PlainChain[1], PlainChain[2],
                       PlainChain[3], PlainChain[4])
    /\ ret = NoRet
    /\ called = NoCall
    /\ ndiff = 0
    /\ prev = None
    /\ gi = GI_Idle
    /\ nfail = 0
    /\ \E b \in Configs :
         /\ b.numbers = atoms.numbers /\ b.cell = atoms.cell /\ b.pbc = atoms.pbc
         /\ b.positions # atoms.positions
         /\ th = [t \in Threads |->
                   [IdleThread EXCEPT !.arg = IF t = "t1" THEN atoms ELSE b]]
    /\ LET s1 == warm_up(attributes(None, hessian, "simple"), FirstOut)
       IN  \/ /\ self = s1
              /\ snap = atoms
              /\ ncalc = 1
           \/ /\ self = calculate(s1, "t2", FirstOut)
              /\ snap = th["t2"].arg
              /\ ncalc = 2

\* PhysNetCalculator(atoms, checkpoint, config): hessian=False by default
InitRace == InitRaceFor(FALSE)

\* PhysNetCalculator(atoms, checkpoint, config, hessian=True)
InitRaceHessian == InitRaceFor(TRUE)

Main == <<constructed, atoms, ret, called, ndiff, prev, gi, nfail>>

\* the thread t moves to pc with its locals as in upd
Step(t, pc, upd) == [th EXCEPT ![t] = [upd EXCEPT !.pc = pc]]

\* a value that a thread has read and not yet stored
Got(x) == [v |-> x]

\* Both threads may make their first call at any time, the two calls
\* interleaving; a thread makes further calls, MaxCalls in all, only while
\* the other one has made none, and the other one then makes none.
CanCall(t) ==
    /\ constructed
    /\ th[t].pc = "idle"
    /\ th[t].calls < MaxCalls
    /\ \A u \in Threads \ {t} :
         IF th[t].calls = 0 THEN th[u].calls <= 1 ELSE th[u].calls = 0

\* The five accessors make the same check and the same call of calculate,
\* and calculate runs alike for them and for a thread that calls it itself:
\* fn is "any" while the thread may have called any of the six, "accessor"
\* while it can only be an accessor, and the method's name once it returns.

\* an accessor, lines 285, 291, 297, 303, 309, in calculation_required,
\* line 173: self.last_atoms is read and compared with None
accessor_check(t) ==
    /\ CanCall(t)
    /\ th' = IF nothing_cached(self)
             THEN Step(t, "l181", [th[t] EXCEPT !.fn = "any", !.calls = @ + 1])
             ELSE Step(t, "l176", [th[t] EXCEPT !.fn = "accessor",
                                                !.calls = @ + 1])
    /\ UNCHANGED <<self, snap, ncalc>>
    /\ UNCHANGED Main

\* an accessor in calculation_required, line 176: self.last_atoms is read
\* again and compared with atoms
accessor_compare(t) ==
    /\ th[t].pc = "l176"
    /\ th' = IF atoms_ne(self, th[t].arg)
             THEN Step(t, "l181", [th[t] EXCEPT !.fn = "any"])
             ELSE Step(t, "return", th[t])
    /\ UNCHANGED <<self, snap, ncalc>>
    /\ UNCHANGED Main

\* the thread calls calculate(atoms) itself: the code makes no check. Where
\* an accessor would call calculate too, the two run alike from here, and
\* the tag fn says so; the comparison that picks the tag is the model's
\* bookkeeping, not a read by the thread
calculate_enter(t) ==
    /\ CanCall(t)
    /\ th' = Step(t, "l181",
                  [th[t] EXCEPT !.fn = IF calculation_required(self, th[t].arg)
                                       THEN "any" ELSE "calculate",
                                !.calls = @ + 1])
    /\ UNCHANGED <<self, snap, ncalc>>
    /\ UNCHANGED Main

\* calculate, lines 181-203: the pair index into locals, then the store
\* of self._R
calculate_set_R(t) ==
    /\ th[t].pc = "l181"
    /\ self' = set_R(self, th[t].arg)
    /\ th' = Step(t, "l207", [th[t] EXCEPT !.pairs = PairArgs(self, th[t].arg)])
    /\ UNCHANGED <<snap, ncalc>>
    /\ UNCHANGED Main

\* calculate, lines 208/215: the arguments of the network call are
\* evaluated, self.R read
calculate_args(t) ==
    /\ th[t].pc = "l207"
    /\ branch(self) = "simple"
    /\ th' = Step(t, "call", [th[t] EXCEPT !.m = simple_args(self, th[t].pairs),
                                           !.pairs = None])
    /\ UNCHANGED <<self, snap, ncalc>>
    /\ UNCHANGED Main

\* calculate, lines 207-219: the network is called with the arguments
\* evaluated before and returns into a tuple
calculate_call(t) ==
    /\ th[t].pc = "call"
    /\ \E ev \in NetOut(branch(self)) :
         LET m == served(th[t].m, th[t].arg, ev)
         IN  /\ self' = network_called(self, m)
             /\ th' = Step(t, "assign", [th[t] EXCEPT !.m = m, !.k = 1])
    /\ ncalc' = ncalc + 1
    /\ UNCHANGED snap
    /\ UNCHANGED Main

\* calculate, lines 207/214, the tuple assignment: the store into the
\* k-th attribute among its targets
calculate_assign(t) ==
    /\ th[t].pc = "assign"
    /\ LET targets == AssignTargets(self.hessian_active)
       IN  /\ self' = assign_target(self, targets[th[t].k], th[t].m)
           /\ th' = IF th[t].k < Len(targets)
                    THEN Step(t, "assign", [th[t] EXCEPT !.k = @ + 1])
                    ELSE Step(t, "l221", [th[t] EXCEPT !.k = 0])
    /\ UNCHANGED <<snap, ncalc>>
    /\ UNCHANGED Main

\* calculate, line 221: the store of self._sigma2
calculate_sigma2(t) ==
    /\ th[t].pc = "l221"
    /\ self' = simple_sigma2(self, th[t].m.out)
    /\ th' = Step(t, "l222", th[t])
    /\ UNCHANGED <<snap, ncalc>>
    /\ UNCHANGED Main

\* calculate, line 222, the right-hand side: the getter self.sigma2 reads
\* self._sigma2
calculate_var_read(t) ==
    /\ th[t].pc = "l222"
    /\ th[t].tmp = None
    /\ th' = Step(t, "l222", [th[t] EXCEPT !.tmp = Got(self._sigma2)])
    /\ UNCHANGED <<self, snap, ncalc>>
    /\ UNCHANGED Main

\* calculate, line 222: the store of self._var
calculate_var_write(t) ==
    /\ th[t].pc = "l222"
    /\ th[t].tmp # None
    /\ self' = store_var(self, th[t].m.out, th[t].tmp.v)
    /\ th' = Step(t, "l225", [th[t] EXCEPT !.m = None, !.tmp = None])
    /\ UNCHANGED <<snap, ncalc>>
    /\ UNCHANGED Main

\* the attribute converted at lines 225, 226 and 229
ConvertAttr ==
    [l225 |-> "_last_energy", l226 |-> "_last_forces", l229 |-> "_last_hessian"]

\* calculate, lines 225, 226, 229, the right-hand side: the attribute is
\* read and converted. AttributeError ends calculate and the thread's call
calculate_convert_read(t) ==
    /\ th[t].pc \in DOMAIN ConvertAttr
    /\ th[t].tmp = None
    /\ LET x == self[ConvertAttr[th[t].pc]]
       IN  th' = IF is_tensor(x)
                 THEN Step(t, th[t].pc, [th[t] EXCEPT !.tmp = Got(to_numpy(x))])
                 ELSE Step(t, "raised", th[t])
    /\ UNCHANGED <<self, snap, ncalc>>
    /\ UNCHANGED Main

\* calculate, lines 225, 226, 229: the store; line 228
calculate_convert_write(t) ==
    /\ th[t].pc \in DOMAIN ConvertAttr
    /\ th[t].tmp # None
    /\ self' = [self EXCEPT ![ConvertAttr[th[t].pc]] = th[t].tmp.v]
    /\ th' = Step(t, CASE th[t].pc = "l225" -> "l226"
                       [] th[t].pc = "l226" ->
                            IF self.hessian_active THEN "l229" ELSE "l231"
                       [] th[t].pc = "l229" -> "l276",
                  [th[t] EXCEPT !.tmp = None])
    /\ UNCHANGED <<snap, ncalc>>
    /\ UNCHANGED Main

\* calculate, line 231
calculate_no_hessian(t) ==
    /\ th[t].pc = "l231"
    /\ self' = no_hessian(self)
    /\ th' = Step(t, "l276", th[t])
    /\ UNCHANGED <<snap, ncalc>>
    /\ UNCHANGED Main

\* the key stored and the attribute read at lines 276, 277 and 278
ResultKey == [l276 |-> "energy", l277 |-> "forces", l278 |-> "hessian"]
ResultAttr ==
    [l276 |-> "_last_energy", l277 |-> "_last_forces", l278 |-> "_last_hessian"]

\* calculate, lines 276, 277, 278, the right-hand side: the getter
\* self.last_<key> reads the attribute
calculate_results_read(t) ==
    /\ th[t].pc \in DOMAIN ResultKey
    /\ th[t].tmp = None
    /\ th' = Step(t, th[t].pc,
                  [th[t] EXCEPT !.tmp = Got(self[ResultAttr[th[t].pc]])])
    /\ UNCHANGED <<self, snap, ncalc>>
    /\ UNCHANGED Main

\* calculate, lines 276, 277, 278: the store into self.results
calculate_results_write(t) ==
    /\ th[t].pc \in DOMAIN ResultKey
    /\ th[t].tmp # None
    /\ self' = set_result(self, ResultKey[th[t].pc], th[t].tmp.v)
    /\ th' = Step(t, CASE th[t].pc = "l276" -> "l277"
                       [] th[t].pc = "l277" -> "l278"
                       [] th[t].pc = "l278" -> "l279",
                  [th[t] EXCEPT !.tmp = None])
    /\ UNCHANGED <<snap, ncalc>>
    /\ UNCHANGED Main

\* calculate, line 279: the copy is made and self._last_atoms stored
calculate_last_atoms(t) ==
    /\ th[t].pc = "l279"
    /\ self' = set_last_atoms(self, t)
    /\ snap' = th[t].arg
    /\ th' = Step(t, "return", th[t])
    /\ UNCHANGED ncalc
    /\ UNCHANGED Main

\* calculate called by the thread itself returns None
calculate_return(t) ==
    /\ th[t].pc = "return"
    /\ th[t].fn \in {"any", "calculate"}
    /\ th' = Step(t, "done", [th[t] EXCEPT !.fn = "calculate",
                                           !.ret = [value |-> None]])
    /\ UNCHANGED <<self, snap, ncalc>>
    /\ UNCHANGED Main

\* what the return statement of each accessor reads, in order
\* (lines 287, 294, 300, 306, 311)
ReturnReads ==
    [get_potential_energy |-> <<"results.energy">>,
     get_potential_energy_and_uncertainty |->
         <<"_last_energy", "_var", "_sigma2">>,
     get_potential_energy_uncertainty_and_forces |->
         <<"_last_energy", "_var", "_sigma2", "_last_forces">>,
     get_forces |-> <<"_last_forces">>,
     get_hessian |-> <<"_last_hessian">>]

Read(s, what) == IF what = "results.energy" THEN s.results.energy ELSE s[what]

\* the accessors whose return statement starts with the reads in rd
\* followed by one more
Reading(rd) ==
    {acc \in Accessors : Len(rd) < Len(ReturnReads[acc]) /\
        \A i \in 1..Len(rd) : ReturnReads[acc][i] = rd[i]}

\* the return statement of an accessor: one read of self.results or one
\* property getter per step; the thread's accessor is one of those that
\* make the reads made so far, and after its last read it returns
accessor_return(t) ==
    /\ th[t].pc = "return"
    /\ th[t].fn # "calculate"
    /\ \E acc \in Reading(th[t].rd) :
         LET what == ReturnReads[acc][Len(th[t].rd) + 1]
             rd   == Append(th[t].rd, what)
             got  == Append(th[t].got, Read(self, what))
         IN  th' = IF Len(rd) < Len(ReturnReads[acc])
                   THEN Step(t, "return", [th[t] EXCEPT !.fn = "accessor",
                                                        !.rd = rd, !.got = got])
                   ELSE Step(t, "done",
                             [th[t] EXCEPT
                                !.fn = acc,
                                !.rd = <<>>,
                                !.got = <<>>,
                                !.ret = [value |-> IF Len(got) = 1
                                                   THEN got[1] ELSE got]])
    /\ UNCHANGED <<self, snap, ncalc>>
    /\ UNCHANGED Main

\* between two of its calls a thread alone on the evaluator may move its
\* atoms: atoms.set_positions(...)
call_again(t) ==
    /\ th[t].pc = "done"
    /\ th[t].calls < MaxCalls
    /\ \A u \in Threads \ {t} : th[u].calls = 0
    /\ \E b \in Configs :
         /\ b = [th[t].arg EXCEPT !.positions = b.positions]
         /\ th' = [th EXCEPT ![t] = [IdleThread EXCEPT !.arg = b,
                                                       !.calls = th[t].calls]]
    /\ UNCHANGED <<self, snap, ncalc>>
    /\ UNCHANGED Main

NextRace ==
    \/ \E t \in Threads : accessor_check(t)
    \/ \E t \in Threads : accessor_compare(t)
    \/ \E t \in Threads : calculate_enter(t)
    \/ \E t \in Threads : calculate_set_R(t)
    \/ \E t \in Threads : calculate_args(t)
    \/ \E t \in Threads : calculate_call(t)
    \/ \E t \in Threads : calculate_assign(t)
    \/ \E t \in Threads : calculate_sigma2(t)
    \/ \E t \in Threads : calculate_var_read(t)
    \/ \E t \in Threads : calculate_var_write(t)
    \/ \E t \in Threads : calculate_convert_read(t)
    \/ \E t \in Threads : calculate_convert_write(t)
    \/ \E t \in Threads : calculate_no_hessian(t)
    \/ \E t \in Threads : calculate_results_read(t)
    \/ \E t \in Threads : calculate_results_write(t)
    \/ \E t \in Threads : calculate_last_atoms(t)
    \/ \E t \in Threads : calculate_return(t)
    \/ \E t \in Threads : accessor_return(t)
    \/ \E t \in Threads : call_again(t)

SpecRace == InitRace /\ [][NextRace]_vars

\* the same threads on an evaluator built with hessian=True
SpecRaceHessian == InitRaceHessian /\ [][NextRace]_vars

(* ------------------------------ properties ---------------------------- *)

\* the configuration the cache holds
Cached == Deref(self._last_atoms)

\* what the accessor acc returns when every value it reads was stored by the
\* recomputation that made the network call m
StoredBy(acc, m) ==
    LET e == to_numpy(Computed("energy", m.call))
        f == to_numpy(Computed("forces", m.call))
        h == IF self.hessian_active
             THEN to_numpy(Computed("hessian", m.call)) ELSE None
        s == evidential_sigma2(m.out.alpha, m.out.beta)
        v == evidential_var(m.out.lambdas, s)
    IN  CASE acc = "get_potential_energy" -> e
          [] acc = "get_potential_energy_and_uncertainty" -> <<e, v, s>>
          [] acc = "get_potential_energy_uncertainty_and_forces" -> <<e, v, s, f>>
          [] acc = "get_forces" -> f
          [] acc = "get_hessian" -> h

\* C1: an accessor called with configuration C returns the values stored by a
\* recomputation that was invoked on a configuration equal to C in positions,
\* atomic numbers, cell and periodic flags, and calculation_required(C) is
\* true exactly when nothing is cached or C differs from the cached
\* configuration in one of those four fields.
NoStaleResult ==
    /\ ret # NoRet =>
         /\ self._model.for.positions = atoms.positions
         /\ self._model.for.numbers = atoms.numbers
         /\ self._model.for.cell = atoms.cell
         /\ self._model.for.pbc = atoms.pbc
         /\ self._model.call.R = atoms.positions
         /\ ret.value = StoredBy(called.acc, self._model)
    /\ constructed =>
         \A C \in Configs :
            calculation_required(self, C) <=>
               \/ self._last_atoms = NoneTag
               \/ C.positions # Cached.positions
               \/ C.numbers # Cached.numbers
               \/ C.cell # Cached.cell
               \/ C.pbc # Cached.pbc

\* an accessor answered from the cache after the configuration had changed
\* twice since construction
NoStaleResult_witness ==
    /\ ret # NoRet
    /\ ~called.recomputed
    /\ ncalc = 3

\* C2: after construction the number of calculate() calls equals the number
\* of accessor calls whose configuration differs from the one of the call
\* before, plus one for the first call.
NoRedundantRecomputation ==
    constructed => ncalc - 1 = ndiff

\* the same configuration queried twice in a row after two recomputations
NoRedundantRecomputation_witness ==
    /\ ndiff = 2
    /\ ncalc = 3
    /\ ret # NoRet
    /\ ~called.recomputed

\* C3: construction runs calculate() exactly once and leaves no cached
\* configuration, so the first accessor call recomputes whatever its
\* configuration is.
WarmUpThenInvalid ==
    /\ [](constructed /\ prev = None =>
             /\ ncalc = 1
             /\ self._model # None
             /\ self._last_atoms = NoneTag
             /\ \A C \in Configs : calculation_required(self, C))
    /\ [][constructed /\ prev = None /\ ret' # NoRet =>
             called'.recomputed /\ ncalc' = 2]_vars

\* the first accessor call was made with the atomic numbers and positions of
\* the configuration given at construction, and it recomputed
WarmUpThenInvalid_witness ==
    /\ ret # NoRet
    /\ ndiff = 1
    /\ ncalc = 2
    /\ called.recomputed
    /\ atoms.numbers = self._Z

\* C4: the cached configuration is a snapshot: when the caller changes its
\* object in place the cached configuration keeps the values it had, the
\* changed object then requires a calculation, and the accessor called with
\* it recomputes.
CopyOnCache ==
    [][/\ (self._last_atoms # NoneTag /\ atoms' # atoms) =>
             /\ Cached' = Cached
             /\ (~calculation_required(self, atoms) =>
                    (calculation_required(self, atoms))')
       /\ (constructed /\ ret' # NoRet /\ prev # None /\ ~AtomsEq(atoms, prev)) =>
             /\ ncalc' = ncalc + 1
             /\ AtomsEq(Cached', atoms)]_vars

\* the caller has changed the object it passed to the last accessor call,
\* and the cache still holds what was passed
CopyOnCache_witness ==
    /\ self._last_atoms # NoneTag
    /\ prev # None
    /\ AtomsEq(Cached, prev)
    /\ ~AtomsEq(atoms, prev)

\* the pairs (idx_i[p], idx_j[p]) of the two index sequences
PairsOf(i, j) == {<<i[p], j[p]>> : p \in DOMAIN i \cap DOMAIN j}

\* every ordered pair of distinct atoms among 0..N-1
OrderedPairs(N) == {q \in (0..(N - 1)) \X (0..(N - 1)) : q[1] # q[2]}

\* C5: for N >= 2 atoms get_indices returns idx_i and idx_j of length
\* N*(N-1) whose pairs hold no self-pair and every ordered pair of distinct
\* atoms exactly once.
PairIndexComplete ==
    (gi.pc = "done" /\ gi.N >= 2) =>
        /\ Len(gi.idx_i) = gi.N * (gi.N - 1)
        /\ Len(gi.idx_j) = gi.N * (gi.N - 1)
        /\ \A p \in DOMAIN gi.idx_i : gi.idx_i[p] # gi.idx_j[p]
        /\ PairsOf(gi.idx_i, gi.idx_j) = OrderedPairs(gi.N)
        /\ Cardinality(PairsOf(gi.idx_i, gi.idx_j)) = Len(gi.idx_i)

\* get_indices has returned for the largest atom count
PairIndexComplete_witness ==
    /\ gi.pc = "done"
    /\ gi.N = MaxN
    /\ Len(gi.idx_j) = MaxN * (MaxN - 1)

\* C6: for one atom get_indices returns empty idx_i and idx_j.
SingleAtomEmpty ==
    (gi.pc = "done" /\ gi.N = 1) =>
        /\ gi.idx_i = <<>>
        /\ gi.idx_j = <<>>

Recognised == {"simple", "Lipz", "MD"}

\* C7: a recomputation calls one network entry point, the evidential one
\* when DER_type is 'simple' or 'Lipz' and the MD one when it is 'MD'.
ModeDispatch ==
    (constructed /\ self.DER_type \in Recognised) =>
        /\ self._model # None
        /\ self.DER_type \in {"simple", "Lipz"} =>
              self._model.call.entry \in Evidential
        /\ self.DER_type = "MD" =>
              self._model.call.entry \in MDEvidential

\* C8: with a DER_type that is none of the recognised tags a recomputation
\* raises: no network entry point is called and nothing is cached, so that
\* the warm-up of __init__ fails and no calculator comes to exist.
DispatchError ==
    self.DER_type \notin Recognised =>
        /\ ~constructed
        /\ self._model = None
        /\ self._last_energy = None
        /\ self._last_atoms = NoneTag

\* C9: for a network output (lambdas, alpha, beta) with alpha # 1 and
\* lambdas # 0 the uncertainty accessors return sigma2 = beta / (alpha - 1)
\* and variance = sigma2 / lambdas; (2, 3, 4) gives sigma2 = 2, variance = 1.
SimpleUncertainty ==
    (/\ ret # NoRet
     /\ called.acc \in {"get_potential_energy_and_uncertainty",
                        "get_potential_energy_uncertainty_and_forces"}
     /\ self._model.call.entry \in Evidential
     /\ self._model.out.alpha # Num(1)
     /\ self._model.out.lambdas # Num(0)) =>
        LET o == self._model.out
        IN  /\ ret.value[3] = RDiv(o.beta, RSub(o.alpha, Num(1)))
            /\ ret.value[2] = RDiv(ret.value[3], o.lambdas)
            /\ IsFinite(ret.value[3]) /\ IsFinite(ret.value[2])
            /\ (o.lambdas = Num(2) /\ o.alpha = Num(3) /\ o.beta = Num(4)) =>
                  (ret.value[3] = Num(2) /\ ret.value[2] = Num(1))

\* an uncertainty accessor has returned after the network gave (2, 3, 4)
SimpleUncertainty_witness ==
    /\ ret # NoRet
    /\ called.acc = "get_potential_energy_and_uncertainty"
    /\ called.recomputed
    /\ self._model.out = [lambdas |-> Num(2), alpha |-> Num(3), beta |-> Num(4)]
    /\ ret.value[3] = Num(2)

\* C10: with DER_type 'MD' the recomputation calls the MD entry point and
\* reports sigma2 = (L L^T * nu / (nu - 3))[0,0] and variance = sigma2 / nu;
\* (L00, L10, L11, nu) = (1, 1/2, 1, 5) gives sigma2 = 5/2, variance = 1/2.
MDCovariance ==
    (constructed /\ self.DER_type = "MD") =>
        /\ self._model.call.entry \in MDEvidential
        /\ LET o  == self._model.out
               s2 == RMul(RMul(o.L00, o.L00), RDiv(o.nu, RSub(o.nu, Num(3))))
           IN  /\ self._sigma2 = s2
               /\ self._var = RDiv(s2, o.nu)
               /\ (o.L00 = Num(1) /\ o.L10 = Frac(1, 2) /\ o.L11 = Num(1)
                     /\ o.nu = Num(5)) =>
                     (self._sigma2 = Frac(5, 2) /\ self._var = Frac(1, 2))

\* the network call of the last recomputation
LastCall == self._model.call

\* that recomputation took the neighbor-search path
SearchPath == "search" \in DOMAIN LastCall.pairs.idx

\* C11: with alpha <= 1 (or nu <= 3) the recomputation ends in a numeric
\* error, so an accessor never returns an undefined or a negative sigma2 or
\* variance.
NumericDegeneracy ==
    (/\ ret # NoRet
     /\ called.acc \in {"get_potential_energy_and_uncertainty",
                        "get_potential_energy_uncertainty_and_forces"}) =>
        /\ IsFinite(ret.value[2]) /\ ret.value[2].n >= 0
        /\ IsFinite(ret.value[3]) /\ ret.value[3].n >= 0

\* C12: a recomputation (the warm-up too) takes the neighbor-search path
\* exactly when lr_cut was given at construction or a periodic flag of the
\* configuration is set; otherwise the network gets the all-pairs index of
\* the calculator, no offsets and no short-range lists, and one position
\* (so one force) per atom.
PathSelection ==
    constructed =>
        /\ SearchPath <=>
              \/ self._lr_cutoff # None
              \/ \E k \in 1..3 : self._model.for.pbc[k]
        /\ SearchPath =>
              /\ LastCall.pairs.idx.of = self._model.for
              /\ LastCall.pairs.sr_idx.of = self._model.for
              /\ LastCall.pairs.sr_idx.cutoff = self._sr_cutoff
        /\ ~SearchPath =>
              /\ LastCall.pairs.idx = [idx_i |-> self._idx_i, idx_j |-> self._idx_j]
              /\ LastCall.pairs.offsets = None
              /\ LastCall.pairs.sr_idx = None
              /\ LastCall.pairs.sr_offsets = None
        /\ Len(LastCall.R) = len(self._model.for)
        /\ (ret # NoRet /\ called.acc = "get_forces") =>
              ret.value = to_numpy(Computed("forces", LastCall))

\* get_forces has recomputed and returned for two atoms without periodic
\* flags on a calculator built without lr_cut, by the all-pairs path
PathSelection_witness ==
    /\ ret # NoRet
    /\ called.acc = "get_forces"
    /\ called.recomputed
    /\ len(atoms) = 2
    /\ atoms.pbc = NoPbc
    /\ self._lr_cutoff = None
    /\ ~SearchPath

\* C13: the pair index given to the network by a recomputation on the
\* all-pairs path is the one built from the configuration it evaluates.
PairIndexRebuilt ==
    (constructed /\ ~SearchPath) =>
        LET ij == get_indices(len(self._model.for))
        IN  LastCall.pairs.idx = [idx_i |-> ij[1], idx_j |-> ij[2]]

HessianEntries == {"energy_forces_and_hessian_evidential",
                   "energy_hessian_and_forces_md_evidencial"}

\* C14: a recomputation calls the Hessian variant of the entry point exactly
\* when hessian was set at construction, and afterwards the cached Hessian
\* and what get_hessian returns are None exactly when it was not set.
HessianFlag ==
    constructed =>
        /\ LastCall.entry \in HessianEntries <=> self.hessian_active
        /\ self._last_hessian = None <=> ~self.hessian_active
        /\ (ret # NoRet /\ called.acc = "get_hessian") =>
              /\ ret.value = None <=> ~self.hessian_active
              /\ self.results.hessian = ret.value
              /\ self.hessian_active =>
                    ret.value = to_numpy(Computed("hessian", LastCall))

\* get_hessian has recomputed and returned a Hessian
HessianFlag_witness ==
    /\ ret # NoRet
    /\ called.acc = "get_hessian"
    /\ called.recomputed
    /\ self.hessian_active
    /\ ret.value # None

\* C15: an accessor called with a configuration equal to the cached one
\* changes no attribute of the calculator and calls no network entry point;
\* the same accessor called twice in a row with it returns the same value.
CacheHitFrame ==
    [][(/\ constructed
        /\ ret' # NoRet
        /\ self._last_atoms # NoneTag
        /\ AtomsEq(atoms, Cached)) =>
            /\ self' = self
            /\ snap' = snap
            /\ ncalc' = ncalc
            /\ (ret # NoRet /\ called'.acc = called.acc) => ret' = ret]_vars

\* the same accessor has answered twice in a row, the second time from the
\* cache
CacheHitFrame_witness ==
    /\ ret # NoRet
    /\ called.acc = "get_potential_energy_uncertainty_and_forces"
    /\ ~called.recomputed
    /\ ncalc = 2

\* C17: a recomputation gives the network the atomic numbers and the
\* positions of the configuration it evaluates.
OwnAtomicNumbers ==
    constructed =>
        /\ LastCall.R = self._model.for.positions
        /\ LastCall.Z = self._model.for.numbers

\* C18: on the neighbor-search path the long-range search is run with a
\* cutoff that is not None.
SearchCutoffDefined ==
    (constructed /\ SearchPath) => LastCall.pairs.idx.cutoff # None

\* the accessor call just made ended in an exception
Raised == called.acc # "none" /\ ret = NoRet

\* C19: a recomputation that raises leaves the cached configuration, energy,
\* forces, Hessian, sigma2, variance and results dictionary as they were;
\* afterwards an accessor called with the cached configuration returns the
\* cached result without recomputation, an accessor called with another
\* configuration recomputes, and every value returned is the one stored by a
\* recomputation for the configuration of the call.
FailedRecomputation ==
    /\ [](ret # NoRet =>
            /\ AtomsEq(self._model.for, atoms)
            /\ ret.value = StoredBy(called.acc, self._model))
    /\ [][nfail' # nfail =>
            /\ self'._last_atoms = self._last_atoms
            /\ snap' = snap
            /\ self'._last_energy = self._last_energy
            /\ self'._last_forces = self._last_forces
            /\ self'._last_hessian = self._last_hessian
            /\ self'._sigma2 = self._sigma2
            /\ self'._var = self._var
            /\ self'.results = self.results
            /\ ncalc' = ncalc]_vars
    /\ [][(constructed /\ ret' # NoRet) =>
            IF self._last_atoms # NoneTag /\ AtomsEq(atoms, Cached)
            THEN ncalc' = ncalc /\ self' = self
            ELSE ncalc' = ncalc + 1 /\ AtomsEq(self'._model.for, atoms)]_vars

\* a recomputation for a configuration other than the cached one has raised
FailedRecomputation_witness ==
    /\ Raised
    /\ nfail > 0
    /\ self._last_atoms # NoneTag
    /\ ~AtomsEq(atoms, Cached)

\* the energy, forces and Hessian among the values returned to thread t
Returned(t) ==
    LET v == th[t].ret.value
    IN  CASE th[t].fn = "get_potential_energy_and_uncertainty" -> {v[1]}
          [] th[t].fn = "get_potential_energy_uncertainty_and_forces" ->
               {v[1], v[4]}
          [] th[t].fn = "calculate" -> {}
          [] OTHER -> {v} \ {None, Missing}

\* an accessor has returned to thread t a value the network computed from
\* other positions than those of the thread's configuration
Stale(t) ==
    /\ th[t].pc = "done"
    /\ \E x \in Returned(t) : x.call.R # th[t].arg.positions

\* C16: with two threads on one evaluator and the reads and stores of the
\* accessors and calculate interleaving, a thread is returned a value
\* computed for another configuration than its own only when the other
\* thread has called the evaluator too; a thread that is its only caller
\* never is, whatever is cached when it calls and however often it calls.
CacheRace ==
    \A t \in Threads :
        Stale(t) => \E u \in Threads \ {t} : th[u].calls > 0

\* get_forces has returned to a thread, for its own configuration, the
\* forces computed from the positions of the other thread's configuration
CacheRace_witness ==
    \E t \in Threads :
        /\ Stale(t)
        /\ th[t].fn = "get_forces"
        /\ \E u \in Threads \ {t} :
              /\ th[u].calls > 0
              /\ th[t].ret.value.call.R = th[u].arg.positions

=============================================================================
